---- MODULE Spec2Model ----
(***************************************************************************)
(* Model of the XOR<This, That> enum of src/src/lib.rs and of its method   *)
(* surface.  Two owned bindings ("x" and "y") hold instances; every method *)
(* of the impl block is one atomic action applied to one of them.  The     *)
(* payload types are instantiated with small naturals on both sides.       *)
(***************************************************************************)
EXTENDS Integers, Sequences, FiniteSets, TLC

\* Largest payload value (two decimal digits, so that rendering is not one char).
MaxVal == 10

Val == 0..MaxVal

Slots == {"x", "y"}

Tags == {"This", "That"}

\* The two variants of the enum.
This(data) == [tag |-> "This", data |-> data]

That(data) == [tag |-> "That", data |-> data]

XOR == {This(v) : v \in Val} \cup {That(v) : v \in Val}

\* core::option::Option as used by this() / that().
Some(data) == <<"Some", data>>

None == <<"None">>

\* The marker for a call that did not return (it panicked).
NoReturn == <<"NoReturn">>

\* The caller-supplied FnOnce hooks the model draws from.  "panic" is a hook
\* that panics when it is invoked.
Hooks == {"identity", "succ", "zero", "panic"}

Apply(hook, data) ==
    CASE hook = "identity" -> data
      [] hook = "succ"     -> data + 1
      [] hook = "zero"     -> 0
      [] OTHER             -> NoReturn

\* Clone of a payload: a value copy.
Clone(data) == data

is_this_swapped(self) == self.tag = "That"

is_this(self) == self.tag = "This"

is_that(self) == self.tag = "That"

this_zero(self) == IF self.tag = "This" THEN Some(0) ELSE None

this(self) == IF self.tag = "This" THEN Some(self.data) ELSE None

that(self) == IF self.tag = "That" THEN Some(self.data) ELSE None

\* map_this: the result, and how many times the hook was invoked.
map_this_twice(self, hook) ==
    IF self.tag = "This"
    THEN [xor |-> This(Apply(hook, Apply(hook, self.data))), calls |-> 2]
    ELSE [xor |-> That(Clone(self.data)), calls |-> 0]

map_this(self, hook) ==
    IF self.tag = "This"
    THEN [xor |-> This(Apply(hook, self.data)), calls |-> 1]
    ELSE [xor |-> That(Clone(self.data)), calls |-> 0]

map_that_eager(self, hook) ==
    IF self.tag = "This"
    THEN [xor |-> This(Apply(hook, self.data)), calls |-> 1]
    ELSE [xor |-> That(Apply(hook, self.data)), calls |-> 1]

map_that_retag(self, hook) ==
    IF self.tag = "This"
    THEN [xor |-> That(Clone(self.data)), calls |-> 0]
    ELSE [xor |-> That(Apply(hook, self.data)), calls |-> 1]

map_that(self, hook) ==
    IF self.tag = "This"
    THEN [xor |-> This(Clone(self.data)), calls |-> 0]
    ELSE [xor |-> That(Apply(hook, self.data)), calls |-> 1]

\* A shared reference to the payload of the instance bound to slot.
Ref(slot) == <<"ref", slot>>

as_ref(slot, self) ==
    IF self.tag = "This" THEN This(Ref(slot)) ELSE That(Ref(slot))

\* The panic messages (the back quotes around the variant names left out).
MsgThis == "Tried to unwrap This variant, but it was That."

MsgThat == "Tried to unwrap That variant, but it was This."

\* unwrap_*: either the payload, or a panic with its message.
unwrap_this_lenient(self) ==
    IF self.tag = "This"
    THEN [panic |-> FALSE, val |-> self.data, msg |-> ""]
    ELSE [panic |-> FALSE, val |-> self.data, msg |-> ""]

unwrap_this(self) ==
    IF self.tag = "This"
    THEN [panic |-> FALSE, val |-> self.data, msg |-> ""]
    ELSE [panic |-> TRUE, val |-> NoReturn, msg |-> MsgThis]

unwrap_that_strict(self) ==
    [panic |-> TRUE, val |-> NoReturn, msg |-> MsgThat]

unwrap_that(self) ==
    IF self.tag = "That"
    THEN [panic |-> FALSE, val |-> self.data, msg |-> ""]
    ELSE [panic |-> TRUE, val |-> NoReturn, msg |-> MsgThat]

\* Display of an unsigned integer: its decimal digits, as a sequence of chars.
Digits == <<"0", "1", "2", "3", "4", "5", "6", "7", "8", "9">>

RECURSIVE Render(_)
Render(n) ==
    IF n < 10 THEN <<Digits[n + 1]>>
              ELSE Render(n \div 10) \o <<Digits[(n % 10) + 1]>>

\* <XOR as Display>::fmt: the characters written to the formatter.
fmt_one_label(self) ==
    IF self.tag = "This"
    THEN <<"T", "h", "i", "s", "(">> \o Render(self.data) \o <<")">>
    ELSE <<"T", "h", "i", "s", "(">> \o Render(self.data) \o <<")">>

fmt(self) ==
    IF self.tag = "This"
    THEN <<"T", "h", "i", "s", "(">> \o Render(self.data) \o <<")">>
    ELSE <<"T", "h", "a", "t", "(">> \o Render(self.data) \o <<")">>

\* The derived PartialEq: same discriminant, then equal fields.
eq_untagged(a, b) == a.data = b.data

eq(a, b) == IF a.tag = b.tag THEN a.data = b.data ELSE FALSE

VARIABLES
    inst,     \* slot -> the instance bound to it
    alive,    \* slot -> the binding still owns its instance (not moved out)
    op,       \* the last operation
    recv,     \* the slot of its receiver
    other,    \* the slot of the right-hand side of ==, or "none"
    hook,     \* the hook passed to map_this / map_that, or "none"
    ret,      \* what the operation returned (NoReturn after a panic)
    calls,    \* how many times the operation invoked the hook
    outcome,  \* "returned" or "panicked"
    msg       \* the panic message, "" when there was no panic

vars == <<inst, alive, op, recv, other, hook, ret, calls, outcome, msg>>

Init ==
    /\ inst \in [Slots -> XOR]
    /\ alive = [s \in Slots |-> TRUE]
    /\ op = "new"
    /\ recv = "x"
    /\ other = "none"
    /\ hook = "none"
    /\ ret = inst["x"]
    /\ calls = 0
    /\ outcome = "returned"
    /\ msg = ""

\* A panic unwinds the thread: nothing runs after it.
Running == outcome = "returned"

\* What a call that returns normally without a hook leaves behind.
Returns(name, r, value) ==
    /\ op' = name
    /\ recv' = r
    /\ ret' = value
    /\ outcome' = "returned"
    /\ msg' = ""

\* let slot = This(v) / That(v): construct an instance and bind it.
Construct ==
    /\ Running
    /\ \E r \in Slots, t \in Tags, v \in Val :
          /\ inst' = [inst EXCEPT ![r] = [tag |-> t, data |-> v]]
          /\ alive' = [alive EXCEPT ![r] = TRUE]
          /\ Returns("new", r, [tag |-> t, data |-> v])
    /\ other' = "none" /\ hook' = "none" /\ calls' = 0

CallIsThis ==
    /\ Running
    /\ \E r \in Slots :
          /\ alive[r]
          /\ Returns("is_this", r, is_this(inst[r]))
    /\ other' = "none" /\ hook' = "none" /\ calls' = 0
    /\ UNCHANGED <<inst, alive>>

CallIsThat ==
    /\ Running
    /\ \E r \in Slots :
          /\ alive[r]
          /\ Returns("is_that", r, is_that(inst[r]))
    /\ other' = "none" /\ hook' = "none" /\ calls' = 0
    /\ UNCHANGED <<inst, alive>>

\* this(self) takes the receiver by value: the binding is moved out.
CallThis ==
    /\ Running
    /\ \E r \in Slots :
          /\ alive[r]
          /\ Returns("this", r, this(inst[r]))
          /\ alive' = [alive EXCEPT ![r] = FALSE]
    /\ other' = "none" /\ hook' = "none" /\ calls' = 0
    /\ UNCHANGED inst

CallThat ==
    /\ Running
    /\ \E r \in Slots :
          /\ alive[r]
          /\ Returns("that", r, that(inst[r]))
          /\ alive' = [alive EXCEPT ![r] = FALSE]
    /\ other' = "none" /\ hook' = "none" /\ calls' = 0
    /\ UNCHANGED inst

\* The outcome of a map call: a panic of the hook, when it was invoked,
\* unwinds through the method.
Mapped(name, r, h, m) ==
    /\ op' = name
    /\ recv' = r
    /\ hook' = h
    /\ calls' = m.calls
    /\ IF m.calls > 0 /\ h = "panic"
       THEN /\ ret' = NoReturn
            /\ outcome' = "panicked"
            /\ msg' = "hook"
       ELSE /\ ret' = m.xor
            /\ outcome' = "returned"
            /\ msg' = ""

\* map_this(&self, hook) borrows the receiver.
CallMapThis ==
    /\ Running
    /\ \E r \in Slots, h \in Hooks :
          /\ alive[r]
          /\ Mapped("map_this", r, h, map_this(inst[r], h))
    /\ other' = "none"
    /\ UNCHANGED <<inst, alive>>

CallMapThat ==
    /\ Running
    /\ \E r \in Slots, h \in Hooks :
          /\ alive[r]
          /\ Mapped("map_that", r, h, map_that(inst[r], h))
    /\ other' = "none"
    /\ UNCHANGED <<inst, alive>>

CallAsRef_moving ==
    /\ Running
    /\ \E r \in Slots :
          /\ alive[r]
          /\ Returns("as_ref", r, as_ref(r, inst[r]))
          /\ alive' = [alive EXCEPT ![r] = FALSE]
    /\ other' = "none" /\ hook' = "none" /\ calls' = 0
    /\ UNCHANGED inst

CallAsRef ==
    /\ Running
    /\ \E r \in Slots :
          /\ alive[r]
          /\ Returns("as_ref", r, as_ref(r, inst[r]))
    /\ other' = "none" /\ hook' = "none" /\ calls' = 0
    /\ UNCHANGED <<inst, alive>>

\* The outcome of an unwrap call.
Unwrapped(name, r, u) ==
    /\ op' = name
    /\ recv' = r
    /\ ret' = u.val
    /\ outcome' = IF u.panic THEN "panicked" ELSE "returned"
    /\ msg' = u.msg

\* unwrap_this(self) takes the receiver by value.
CallUnwrapThis ==
    /\ Running
    /\ \E r \in Slots :
          /\ alive[r]
          /\ Unwrapped("unwrap_this", r, unwrap_this(inst[r]))
          /\ alive' = [alive EXCEPT ![r] = FALSE]
    /\ other' = "none" /\ hook' = "none" /\ calls' = 0
    /\ UNCHANGED inst

CallUnwrapThat ==
    /\ Running
    /\ \E r \in Slots :
          /\ alive[r]
          /\ Unwrapped("unwrap_that", r, unwrap_that(inst[r]))
          /\ alive' = [alive EXCEPT ![r] = FALSE]
    /\ other' = "none" /\ hook' = "none" /\ calls' = 0
    /\ UNCHANGED inst

\* format!("{}", slot): fmt(&self, f) writes to the formatter.
CallFmt ==
    /\ Running
    /\ \E r \in Slots :
          /\ alive[r]
          /\ Returns("fmt", r, fmt(inst[r]))
    /\ other' = "none" /\ hook' = "none" /\ calls' = 0
    /\ UNCHANGED <<inst, alive>>

\* a == b, for two live bindings (possibly the same one).
CallEq ==
    /\ Running
    /\ \E r \in Slots, o \in Slots :
          /\ alive[r] /\ alive[o]
          /\ Returns("eq", r, eq(inst[r], inst[o]))
          /\ other' = o
    /\ hook' = "none" /\ calls' = 0
    /\ UNCHANGED <<inst, alive>>

Next ==
    \/ Construct
    \/ CallIsThis
    \/ CallIsThat
    \/ CallThis
    \/ CallThat
    \/ CallMapThis
    \/ CallMapThat
    \/ CallAsRef
    \/ CallUnwrapThis
    \/ CallUnwrapThat
    \/ CallFmt
    \/ CallEq

Spec == Init /\ [][Next]_vars

\* The receiver of the last operation, and the right-hand side of ==.
Self == inst[recv]

Rhs == inst[other]

\* The value a reference points to.
Deref(p) == inst[p[2]].data

\* Reading a decimal rendering back.
DigitVal(c) == CHOOSE d \in 0..9 : Digits[d + 1] = c

RECURSIVE ParseDec(_)
ParseDec(s) ==
    IF Len(s) = 0 THEN 0
    ELSE ParseDec(SubSeq(s, 1, Len(s) - 1)) * 10 + DigitVal(s[Len(s)])

MapOps == {"map_this", "map_that"}

TotalOps == {"new", "is_this", "is_that", "this", "that", "as_ref", "fmt", "eq"}

\* C1: is_this() is true iff the active variant is This, is_that() is true
\* iff it is That, and for every instance exactly one of the two is true.
C1_IsThisXorIsThat ==
    /\ op = "is_this" => (outcome = "returned" /\ ret = (Self.tag = "This"))
    /\ op = "is_that" => (outcome = "returned" /\ ret = (Self.tag = "That"))
    /\ \A s \in Slots : is_this(inst[s]) # is_that(inst[s])

C1_Witness == op = "is_this" /\ Self.tag = "That" /\ ret = FALSE

\* C2: this() on This(v) is Some(v) and on That(w) is None; that() on
\* That(w) is Some(w) and on This(v) is None; for every instance exactly one
\* of the two is Some, and it carries the payload unchanged.
C2_ThisThatOption ==
    /\ op = "this" =>
          ret = (IF Self.tag = "This" THEN Some(Self.data) ELSE None)
    /\ op = "that" =>
          ret = (IF Self.tag = "That" THEN Some(Self.data) ELSE None)
    /\ \A s \in Slots :
          /\ (this(inst[s]) = None) # (that(inst[s]) = None)
          /\ Some(inst[s].data) \in {this(inst[s]), that(inst[s])}

C2_Witness == op = "this" /\ Self.tag = "This" /\ Self.data > 0 /\ ret = Some(Self.data)

\* C3: unwrap_this() on This(v) returns v and on That(w) panics without
\* returning a value; unwrap_that() on That(w) returns w and on This(v) panics.
C3_Unwrap ==
    /\ op = "unwrap_this" =>
          IF Self.tag = "This"
          THEN outcome = "returned" /\ ret = Self.data
          ELSE outcome = "panicked" /\ ret = NoReturn /\ msg = MsgThis
    /\ op = "unwrap_that" =>
          IF Self.tag = "That"
          THEN outcome = "returned" /\ ret = Self.data
          ELSE outcome = "panicked" /\ ret = NoReturn /\ msg = MsgThat

C3_Witness == op = "unwrap_this" /\ Self.tag = "That" /\ outcome = "panicked"

\* C4: map_this(f) on This(v) invokes f exactly once and returns This(f(v));
\* map_that(g) on That(w) invokes g exactly once and returns That(g(w)); no
\* map call invokes its hook more than once, and a returned result has the
\* active variant of the receiver.
C4_MapActiveSide ==
    /\ (op = "map_this" /\ Self.tag = "This") =>
          /\ calls = 1
          /\ hook # "panic" =>
                (outcome = "returned" /\ ret = This(Apply(hook, Self.data)))
    /\ (op = "map_that" /\ Self.tag = "That") =>
          /\ calls = 1
          /\ hook # "panic" =>
                (outcome = "returned" /\ ret = That(Apply(hook, Self.data)))
    /\ op \in MapOps =>
          /\ calls <= 1
          /\ outcome = "returned" => ret.tag = Self.tag

C4_Witness ==
    /\ op = "map_this" /\ Self.tag = "This" /\ hook = "succ"
    /\ calls = 1 /\ ret = This(Self.data + 1)

\* C5: mapping the inactive side never invokes the hook, not even one that
\* would panic, and returns the untouched side with the same payload.
C5_MapInactiveSide ==
    /\ (op = "map_this" /\ Self.tag = "That") =>
          (calls = 0 /\ outcome = "returned" /\ ret = That(Self.data))
    /\ (op = "map_that" /\ Self.tag = "This") =>
          (calls = 0 /\ outcome = "returned" /\ ret = This(Self.data))

C5_Witness ==
    /\ op = "map_this" /\ Self.tag = "That" /\ hook = "panic"
    /\ calls = 0 /\ outcome = "returned" /\ ret = Self

\* C6: mapping either side with the identity hook gives an instance equal
\* (by the derived ==) to the receiver, whichever variant is active.
C6_MapIdentity ==
    (op \in MapOps /\ hook = "identity") =>
        /\ outcome = "returned"
        /\ eq(ret, Self)
        /\ ret.tag = Self.tag /\ ret.data = Self.data

C6_Witness ==
    /\ op = "map_that" /\ hook = "identity" /\ Self.tag = "This"
    /\ outcome = "returned" /\ eq(ret, Self)

\* C7: a == b iff a and b have the same active variant and equal payloads;
\* == is reflexive and symmetric, and This(v) never equals That(w).
C7_Equality ==
    op = "eq" =>
        /\ ret = (Self.tag = Rhs.tag /\ Self.data = Rhs.data)
        /\ ret = eq(Rhs, Self)
        /\ recv = other => ret = TRUE
        /\ Self.tag # Rhs.tag => ret = FALSE

C7_Witness ==
    /\ op = "eq" /\ Self.tag = "This" /\ Rhs.tag = "That"
    /\ Self.data = Rhs.data /\ ret = FALSE

\* C8: Display writes the name of the active variant, "(", the payload's own
\* rendering and ")": This(3) is written as This(3); the label always names
\* the active variant, the payload reads back from the text, and the
\* formatted instance is still owned by its binding.
C8_Display ==
    op = "fmt" =>
        /\ outcome = "returned"
        /\ Len(ret) >= 7
        /\ SubSeq(ret, 1, 5) = (IF Self.tag = "This"
                                THEN <<"T", "h", "i", "s", "(">>
                                ELSE <<"T", "h", "a", "t", "(">>)
        /\ ret[Len(ret)] = ")"
        /\ Len(ret) = 6 + (IF Self.data < 10 THEN 1 ELSE 2)
        /\ ParseDec(SubSeq(ret, 6, Len(ret) - 1)) = Self.data
        /\ Self = This(3) => ret = <<"T", "h", "i", "s", "(", "3", ")">>
        /\ Self = That(10) => ret = <<"T", "h", "a", "t", "(", "1", "0", ")">>
        /\ alive[recv]

C8_Witness ==
    /\ op = "fmt" /\ Self = That(10)
    /\ ret = <<"T", "h", "a", "t", "(", "1", "0", ")">>

\* C9: only unwrap_this / unwrap_that panic, and exactly on a variant
\* mismatch; every other operation, the map operations with a hook that does
\* not panic included, returns for either variant.
C9_OnlyUnwrapFails ==
    /\ op \in TotalOps => outcome = "returned"
    /\ (op \in MapOps /\ hook # "panic") => outcome = "returned"
    /\ op = "unwrap_this" => (outcome = "panicked" <=> Self.tag = "That")
    /\ op = "unwrap_that" => (outcome = "panicked" <=> Self.tag = "This")
    /\ outcome = "panicked" =>
          \/ op \in {"unwrap_this", "unwrap_that"}
          \/ op \in MapOps /\ hook = "panic" /\ calls > 0

C9_Witness ==
    /\ op = "unwrap_that" /\ Self.tag = "That" /\ outcome = "returned"
    /\ ret = Self.data

\* C10: as_ref() gives a view with the receiver's active variant whose
\* reference points to the receiver's payload, and as_ref, map_this and
\* map_that leave every binding as it was and the receiver still owned.
C10_Borrowing ==
    [][ /\ op' = "as_ref" =>
              /\ ret'.tag = inst[recv'].tag
              /\ is_this(ret') = is_this(inst[recv'])
              /\ ret'.data = Ref(recv')
              /\ inst'[ret'.data[2]].data = inst[recv'].data
        /\ op' \in MapOps \cup {"as_ref"} =>
              /\ inst' = inst
              /\ alive' = alive
              /\ alive'[recv'] ]_vars

C10_Witness ==
    /\ op = "as_ref" /\ alive[recv] /\ ret.tag = Self.tag
    /\ Deref(ret.data) = Self.data /\ inst["x"].data # inst["y"].data

====
